---- MODULE Spec2Model ----
(***************************************************************************)
(* A model of serverless-plugin-parent (src/src/index.js): the discovery   *)
(* of the parent serverless.yml (getParentConfigurationRelativePath) and   *)
(* the merge of the parent configuration into the service configuration    *)
(* (mergeParentConfigurationIntoService).                                  *)
(*                                                                         *)
(* Strings are sequences of atoms (".." "/" ".yml" ...), so that indexOf,  *)
(* length and path.join are computed, not assumed.  A configuration        *)
(* document is a function from key paths to cells; a cell is a scalar, a   *)
(* sequence of scalars, a mapping (its entries are the cells one key       *)
(* deeper) or nothing.                                                     *)
(***************************************************************************)
EXTENDS Integers, Sequences, FiniteSets, TLC

\* ------------------------------------------------------------------ bounds
\* deepest service directory: the number of its ancestors up to the root
MaxDepth == 11
\* largest configured custom.parent.maxLevels
MaxLevelsChoice == 11
\* longest sequence value of a document
MaxSeqLen == 2

\* ----------------------------------------------------------------- strings
\* number of characters of an atom of a string
AtomLen(a) ==
    CASE a = ".." -> 2
      [] a = "/" -> 1
      [] a = "." -> 1
      [] a = ".yml" -> 4
      [] a = ".d" -> 2
      [] a = "serverless" -> 10
      [] a = "shared" -> 6
      [] a = "parent" -> 6
      [] a = "conf" -> 4
      [] OTHER -> 1

RECURSIVE StrLen(_)
\* String.prototype.length
StrLen(s) == IF s = <<>> THEN 0 ELSE AtomLen(Head(s)) + StrLen(Tail(s))

\* s.indexOf(".yml") >= 0: the marker occurs anywhere in s
ContainsYml(s) == \E i \in 1..Len(s) : s[i] = ".yml"

\* s ends with the marker
EndsWithYml(s) == Len(s) > 0 /\ s[Len(s)] = ".yml"

\* the literal "serverless.yml"
ServerlessYml == <<"serverless", ".yml">>

RECURSIVE SplitSegs(_, _, _)
\* the segments of a path between its separators
SplitSegs(s, cur, acc) ==
    IF s = <<>> THEN Append(acc, cur)
    ELSE IF Head(s) = "/" THEN SplitSegs(Tail(s), <<>>, Append(acc, cur))
    ELSE SplitSegs(Tail(s), Append(cur, Head(s)), acc)

RECURSIVE NormSegs(_, _, _)
\* path.normalize on segments: drops "" and ".", resolves "x/.."
NormSegs(segs, out, abs) ==
    IF segs = <<>> THEN out
    ELSE LET g == Head(segs) IN
         IF g = <<>> \/ g = <<".">> THEN NormSegs(Tail(segs), out, abs)
         ELSE IF g = <<"..">> THEN
                IF Len(out) > 0 /\ out[Len(out)] # <<"..">>
                THEN NormSegs(Tail(segs), SubSeq(out, 1, Len(out) - 1), abs)
                ELSE IF abs THEN NormSegs(Tail(segs), out, abs)
                ELSE NormSegs(Tail(segs), Append(out, g), abs)
         ELSE NormSegs(Tail(segs), Append(out, g), abs)

RECURSIVE JoinSegs(_)
\* segments back to a string
JoinSegs(segs) ==
    IF segs = <<>> THEN <<>>
    ELSE IF Len(segs) = 1 THEN Head(segs)
    ELSE Head(segs) \o <<"/">> \o JoinSegs(Tail(segs))

\* path.normalize (posix)
PathNormalize(s) ==
    IF s = <<>> THEN <<".">>
    ELSE LET abs == Head(s) = "/"
             trail == s[Len(s)] = "/"
             body == JoinSegs(NormSegs(SplitSegs(s, <<>>, <<>>), <<>>, abs))
             b1 == IF body = <<>> /\ ~abs THEN <<".">> ELSE body
             b2 == IF b1 # <<>> /\ trail THEN b1 \o <<"/">> ELSE b1
         IN IF abs THEN <<"/">> \o b2 ELSE b2

\* path.join(a, b)
PathJoin(a, b) ==
    IF a = <<>> THEN PathNormalize(b)
    ELSE IF b = <<>> THEN PathNormalize(a)
    ELSE PathNormalize(a \o <<"/">> \o b)

\* --------------------------------------------------------------- documents
\* the key paths of a document; <<>> is the document itself
Paths ==
    { <<>>,
      <<"custom">>, <<"custom", "parent">>,
      <<"custom", "parent", "overwriteServiceConfig">>,
      <<"custom", "parent", "path">>,
      <<"custom", "parent", "maxLevels">>,
      <<"provider">>, <<"provider", "stage">>, <<"provider", "region">>,
      <<"plugins">>, <<"service">> }

FlagPath == <<"custom", "parent", "overwriteServiceConfig">>
PathPath == <<"custom", "parent", "path">>
LevelsPath == <<"custom", "parent", "maxLevels">>

\* cells: every cell has the same shape, so that any two can be compared
None == [t |-> "none", s |-> <<>>, n |-> 0]
Map == [t |-> "map", s |-> <<>>, n |-> 0]
Null == [t |-> "null", s |-> <<>>, n |-> 0]
Str(s) == [t |-> "str", s |-> s, n |-> 0]
Num(n) == [t |-> "num", s |-> <<>>, n |-> n]
Bool(b) == [t |-> "bool", s |-> <<>>, n |-> IF b THEN 1 ELSE 0]
List(elems) == [t |-> "seq", s |-> elems, n |-> 0]

IsScalar(c) == c.t \in {"str", "num", "bool", "null"}
\* lodash isObject: arrays and plain objects
IsObject(c) == c.t \in {"map", "seq"}

\* the paths one key below p
Children(p) == { q \in Paths : Len(q) = Len(p) + 1 /\ SubSeq(q, 1, Len(p)) = p }
\* the paths strictly below p
Below(p) == { q \in Paths : Len(q) > Len(p) /\ SubSeq(q, 1, Len(p)) = p }

\* {} : the empty document
EmptyDoc == [p \in Paths |-> IF p = <<>> THEN Map ELSE None]

\* obj with the value at p replaced by the childless cell c
Assign(obj, p, c) ==
    [q \in Paths |-> IF q = p THEN c ELSE IF q \in Below(p) THEN None ELSE obj[q]]

\* a merge in which a source array replaces the destination array
ReplaceElems(dst, src) == src

\* index-wise merge of the elements of a source array into a destination array
MergeElems(dst, src) ==
    [i \in 1..(IF Len(dst) > Len(src) THEN Len(dst) ELSE Len(src)) |->
        IF i <= Len(src) THEN src[i] ELSE dst[i]]

\* a shallow merge: a source value replaces the destination value with all below it
MergeAtShallow(obj, src, p) ==
    IF src[p].t = "none" THEN obj
    ELSE [q \in Paths |-> IF q = p \/ q \in Below(p) THEN src[q] ELSE obj[q]]

RECURSIVE MergeAt(_, _, _)
RECURSIVE MergeKeys(_, _, _)
\* lodash baseMerge for one key: merges src's value at p into obj's value at p
MergeAt(obj, src, p) ==
    LET sv == src[p]
        ov == obj[p]
    IN CASE sv.t = "none" -> obj
         [] sv.t = "map" ->
              MergeKeys(IF IsObject(ov) THEN obj ELSE Assign(obj, p, Map),
                        src, Children(p))
         [] sv.t = "seq" ->
              MergeKeys(IF ov.t = "seq"
                        THEN [obj EXCEPT ![p] = List(MergeElems(ov.s, sv.s))]
                        ELSE Assign(obj, p, sv),
                        src, Children(p))
         [] OTHER -> Assign(obj, p, sv)

\* baseMerge over the keys ps of the source
MergeKeys(obj, src, ps) ==
    IF ps = {} THEN obj
    ELSE LET p == CHOOSE q \in ps : TRUE
         IN MergeKeys(MergeAt(obj, src, p), src, ps \ {p})

\* _.merge(object, source)
merge(object, source) == MergeKeys(object, source, Children(<<>>))

\* JavaScript truthiness of a cell
Truthy(c) ==
    CASE c.t \in {"none", "null"} -> FALSE
      [] c.t = "bool" -> c.n = 1
      [] c.t = "num" -> c.n # 0
      [] c.t = "str" -> c.s # <<>>
      [] OTHER -> TRUE

\* doc.custom && doc.custom.parent && doc.custom.parent[key]
GuardedParentField(doc, key) ==
    IF ~Truthy(doc[<<"custom">>]) THEN doc[<<"custom">>]
    ELSE IF ~IsObject(doc[<<"custom">>]) THEN None
    ELSE IF ~Truthy(doc[<<"custom", "parent">>]) THEN doc[<<"custom", "parent">>]
    ELSE IF ~IsObject(doc[<<"custom", "parent">>]) THEN None
    ELSE doc[<<"custom", "parent", key>>]

\* the default of maxLevels
DefaultMaxLevels == 3

\* ------------------------------------------------------------------- state
VARIABLES
    child,              \* the service configuration as it was before the call
    parentConfiguration,\* the document the loader returns for the parent file
    service,            \* this.serverless.service
    depth,              \* file system: the number of ancestors of the service directory
    home,               \* file system: where os.homedir() lies
    fileAt,             \* file system: the depths of the directories holding serverless.yml
    pc,                 \* position in mergeParentConfigurationIntoService
    error,              \* the error thrown out of the call, "" if none
    maxLevelsToSearch,
    relativePath,
    parentConfigurationFilename,
    overwriteServiceConfig,
    probed,             \* the relative paths given to fs.existsSync (without the file name)
    resolved,           \* the relative paths given to fs.realpathSync
    populated           \* variables.populateService was called

vars == <<child, parentConfiguration, service, depth, home, fileAt, pc, error,
          maxLevelsToSearch, relativePath, parentConfigurationFilename,
          overwriteServiceConfig, probed, resolved, populated>>

\* the number of ".." of a relative path: how many levels above the service directory
LevelOf(rel) == Cardinality({ i \in 1..Len(rel) : rel[i] = ".." })

\* the depth of the directory a relative path of only ".." names; the root is its own parent
DirOf(rel) == IF LevelOf(rel) >= depth THEN 0 ELSE depth - LevelOf(rel)

\* fs.existsSync(path.join(rel, "serverless.yml"))
ExistsSync(rel) == DirOf(rel) \in fileAt

\* fs.realpathSync(rel) !== os.homedir()
NotHome(rel) == ~(home.onPath /\ home.depth = DirOf(rel))

\* the bound of the search with the "- 1" left out
WithinLevelsOffByOne(rel, maxLevels) == StrLen(rel) < maxLevels * 3

\* line 168: the bound of the search, on the length of the relative path
WithinLevels(rel, maxLevels) == StrLen(rel) < (maxLevels - 1) * 3

\* an explicit path that counts only if a serverless.yml lies in the parent directory
HasExplicitPathThatExists(doc) == Truthy(GuardedParentField(doc, "path")) /\ fileAt # {}

\* lines 145-147: custom.parent.path is set
HasExplicitPath(doc) == Truthy(GuardedParentField(doc, "path"))

\* --------------------------------------------------------------- operations
\* getParentConfigurationRelativePath, custom.parent.path set
ExplicitPath ==
    /\ pc = "start"
    /\ HasExplicitPath(service)
    /\ LET path == GuardedParentField(service, "path").s
       IN parentConfigurationFilename' =
             IF ~ContainsYml(path) THEN PathJoin(path, ServerlessYml) ELSE path
    /\ pc' = "load"
    /\ UNCHANGED <<child, parentConfiguration, service, depth, home, fileAt, error,
                   maxLevelsToSearch, relativePath, overwriteServiceConfig,
                   probed, resolved, populated>>

\* getParentConfigurationRelativePath, lines 156-162: the start of auto-discovery
BeginDiscovery ==
    /\ pc = "start"
    /\ ~HasExplicitPath(service)
    /\ maxLevelsToSearch' =
          IF Truthy(GuardedParentField(service, "maxLevels"))
          THEN GuardedParentField(service, "maxLevels").n
          ELSE DefaultMaxLevels
    /\ relativePath' = <<"..">>
    /\ pc' = "while"
    /\ UNCHANGED <<child, parentConfiguration, service, depth, home, fileAt, error,
                   parentConfigurationFilename, overwriteServiceConfig,
                   probed, resolved, populated>>

\* one evaluation of the while condition, and the loop body if it holds
DiscoveryLoop ==
    /\ pc = "while"
    /\ probed' = probed \cup {relativePath}
    /\ resolved' = IF ExistsSync(relativePath) THEN resolved
                   ELSE resolved \cup {relativePath}
    /\ IF /\ ~ExistsSync(relativePath)
          /\ NotHome(relativePath)
          /\ WithinLevels(relativePath, maxLevelsToSearch)
       THEN /\ relativePath' = PathJoin(relativePath, <<"..">>)
            /\ pc' = "while"
       ELSE /\ relativePath' = relativePath
            /\ pc' = "after"
    /\ UNCHANGED <<child, parentConfiguration, service, depth, home, fileAt, error,
                   maxLevelsToSearch, parentConfigurationFilename,
                   overwriteServiceConfig, populated>>

\* lines 172-174: no serverless.yml where the loop stopped
DiscoveryThrow ==
    /\ pc = "after"
    /\ ~ExistsSync(relativePath)
    /\ probed' = probed \cup {relativePath}
    /\ pc' = "failed"
    /\ error' = "Could not discover parent serverless.yml"
    /\ UNCHANGED <<child, parentConfiguration, service, depth, home, fileAt,
                   maxLevelsToSearch, relativePath, parentConfigurationFilename,
                   overwriteServiceConfig, resolved, populated>>

\* line 176: the discovered file
DiscoveryReturn ==
    /\ pc = "after"
    /\ ExistsSync(relativePath)
    /\ probed' = probed \cup {relativePath}
    /\ parentConfigurationFilename' = PathJoin(relativePath, ServerlessYml)
    /\ pc' = "load"
    /\ UNCHANGED <<child, parentConfiguration, service, depth, home, fileAt, error,
                   maxLevelsToSearch, relativePath, overwriteServiceConfig,
                   resolved, populated>>

\* line 104: serverless.utils.readFileSync returns the parsed parent document
Load ==
    /\ pc = "load"
    /\ pc' = "merge"
    /\ UNCHANGED <<child, parentConfiguration, service, depth, home, fileAt, error,
                   maxLevelsToSearch, relativePath, parentConfigurationFilename,
                   overwriteServiceConfig, probed, resolved, populated>>

\* a loader failure after which the variables are repopulated all the same
LoadThrowRepopulating ==
    /\ pc = "load"
    /\ pc' = "failed"
    /\ error' = "readFileSync"
    /\ populated' = TRUE
    /\ UNCHANGED <<child, parentConfiguration, service, depth, home, fileAt,
                   maxLevelsToSearch, relativePath, parentConfigurationFilename,
                   overwriteServiceConfig, probed, resolved>>

\* line 104: serverless.utils.readFileSync throws (no such file, or not parseable)
LoadThrow ==
    /\ pc = "load"
    /\ pc' = "failed"
    /\ error' = "readFileSync"
    /\ UNCHANGED <<child, parentConfiguration, service, depth, home, fileAt,
                   maxLevelsToSearch, relativePath, parentConfigurationFilename,
                   overwriteServiceConfig, probed, resolved, populated>>

\* line 107: the saved copy of the service configuration
UserServiceConfig(svc) == merge(EmptyDoc, svc)

\* line 109: the first merge of the parent into the service configuration
FirstMerge(svc, parentCfg) == merge(svc, parentCfg)

\* lines 113-115 dereference null: custom or custom.parent is null after the first merge
FlagReadThrows(svc) ==
    \/ svc[<<"custom">>].t = "null"
    \/ /\ IsObject(svc[<<"custom">>])
       /\ svc[<<"custom", "parent">>].t = "null"

\* lines 111-118: the flag, read from the document the first merge produced
ReadOverwriteFlag(svc) ==
    ~ ( /\ IsObject(svc[<<"custom">>])
        /\ IsObject(svc[<<"custom", "parent">>])
        /\ svc[FlagPath] = Bool(FALSE) )

\* lines 121-126: the second merge, and the third when the flag is false
FinalMerge(svc, parentCfg, user, overwrite) ==
    LET again == merge(svc, parentCfg)
    IN IF ~overwrite THEN merge(again, user) ELSE again

\* lines 107-135: the merge, the parent document loaded
MergeIntoService ==
    /\ pc = "merge"
    /\ LET user == UserServiceConfig(service)
           first == FirstMerge(service, parentConfiguration)
       IN /\ ~FlagReadThrows(first)
          /\ overwriteServiceConfig' = ReadOverwriteFlag(first)
          /\ service' = FinalMerge(first, parentConfiguration, user,
                                   ReadOverwriteFlag(first))
    /\ \E hostRepopulates \in BOOLEAN : populated' = hostRepopulates
    /\ pc' = "done"
    /\ UNCHANGED <<child, parentConfiguration, depth, home, fileAt, error,
                   maxLevelsToSearch, relativePath, parentConfigurationFilename,
                   probed, resolved>>

\* lines 107-115: the merge stops at the read of the flag with a TypeError
MergeTypeError ==
    /\ pc = "merge"
    /\ FlagReadThrows(FirstMerge(service, parentConfiguration))
    /\ service' = FirstMerge(service, parentConfiguration)
    /\ pc' = "failed"
    /\ error' = "TypeError"
    /\ UNCHANGED <<child, parentConfiguration, depth, home, fileAt,
                   maxLevelsToSearch, relativePath, parentConfigurationFilename,
                   overwriteServiceConfig, probed, resolved, populated>>

Next ==
    \/ ExplicitPath
    \/ BeginDiscovery
    \/ DiscoveryLoop
    \/ DiscoveryThrow
    \/ DiscoveryReturn
    \/ Load
    \/ LoadThrow
    \/ MergeIntoService
    \/ MergeTypeError

\* ------------------------------------------------------------ initial states
\* a document from its leaves: the mappings above a present leaf are present
Doc(leaves) ==
    [p \in Paths |->
        IF p \in DOMAIN leaves THEN leaves[p]
        ELSE IF \E q \in DOMAIN leaves : q \in Below(p) /\ leaves[q].t # "none"
             THEN Map ELSE None]

\* the sequences of n elements named after their side
Elems(side, n) == [i \in 1..n |-> IF i = 1 THEN side ELSE side \o side]
\* the cells of a key that holds a sequence or is absent
SeqCells(side) == {None} \cup { List(Elems(side, n)) : n \in 0..MaxSeqLen }

\* the state before the constructor calls mergeParentConfigurationIntoService
Start(c, p, d, h, f) ==
    /\ child = c
    /\ service = c
    /\ parentConfiguration = p
    /\ depth = d
    /\ home = h
    /\ fileAt = f
    /\ pc = "start"
    /\ error = ""
    /\ maxLevelsToSearch = 0
    /\ relativePath = <<>>
    /\ parentConfigurationFilename = <<>>
    /\ overwriteServiceConfig = TRUE
    /\ probed = {}
    /\ resolved = {}
    /\ populated = FALSE

\* "../shared"
SharedDir == <<"..", "/", "shared">>

\* child documents of the merge: flag, nested and sequence values, with or without a path
MergeChildren ==
    { Doc(FlagPath :> flag @@ PathPath :> path
          @@ <<"provider", "stage">> :> stage
          @@ <<"plugins">> :> plugins @@ <<"service">> :> Str(<<"child">>)) :
        flag \in {None, Bool(FALSE), Bool(TRUE)},
        path \in {None, Str(SharedDir)},
        stage \in {None, Str(<<"dev">>)},
        plugins \in SeqCells("c") }

\* what a parent document holds under custom
ParentCustoms ==
    { FlagPath :> None, FlagPath :> Bool(FALSE), FlagPath :> Bool(TRUE),
      <<"custom", "parent">> :> Str(<<"x">>), <<"custom">> :> Null }

\* parent documents of the merge
MergeParents ==
    { Doc(custom
          @@ <<"provider", "stage">> :> stage @@ <<"provider", "region">> :> region
          @@ <<"plugins">> :> plugins @@ <<"service">> :> svc) :
        custom \in ParentCustoms,
        stage \in {None, Str(<<"prod">>)},
        region \in {None, Str(<<"us">>)},
        plugins \in SeqCells("p"),
        svc \in {None, Str(<<"parent">>)} }

\* where the home directory lies: on the path from the root to the service
\* directory at a depth, or off that path, branching from it at a depth
Homes(d) == [onPath : BOOLEAN, depth : 0..d]
\* which directories above the service directory hold a serverless.yml: one at most
Files(d) == {{}} \cup { {k} : k \in 0..(d - 1) }

Init ==
    \E c \in MergeChildren, p \in MergeParents, f \in Files(1) :
        Start(c, p, 1, [onPath |-> FALSE, depth |-> 0], f)

Spec == Init /\ [][Next]_vars

\* explicit values of custom.parent.path
ExplicitPaths ==
    { SharedDir,
      <<"..", "/", "shared", "/">>,
      <<".", "/", "a", "/", "..", "/", "shared">>,
      <<"..", "/", "parent", ".yml">>,
      <<"..", "/", "conf", ".yml", ".d">> }

\* child documents of the discovery
LocateChild(path, levels) ==
    Doc(PathPath :> path @@ LevelsPath :> levels @@ <<"service">> :> Str(<<"child">>))

\* a parent document with a provider section, and one whose custom is null
LocateParents ==
    { Doc(<<"provider", "stage">> :> Str(<<"prod">>)), Doc(<<"custom">> :> Null) }

InitLocate ==
    \/ \E path \in ExplicitPaths, levels \in {None, Num(1)}, p \in LocateParents,
          h \in Homes(1), f \in Files(1) :
            Start(LocateChild(Str(path), levels), p, 1, h, f)
    \/ \E path \in {None, Str(<<>>)}, levels \in {None} \cup { Num(n) : n \in 0..MaxLevelsChoice },
          d \in 1..MaxDepth :
         \E h \in Homes(d), f \in Files(d) :
            Start(LocateChild(path, levels), Doc(<<"provider", "stage">> :> Str(<<"prod">>)),
                  d, h, f)

SpecLocate == InitLocate /\ [][Next]_vars

\* ------------------------------------------------------------------ claims
DiscoveryError == "Could not discover parent serverless.yml"

\* the child's own flag is explicitly false
ChildFlagFalse == child[FlagPath] = Bool(FALSE)

\* both documents hold a mapping at every path above p
SharedMappingAbove(p) ==
    \A k \in 0..(Len(p) - 1) :
        child[SubSeq(p, 1, k)].t = "map" /\ parentConfiguration[SubSeq(p, 1, k)].t = "map"

\* C1: a key other than the flag that child and parent (the parent not defining
\* the flag) both hold with differing scalar values ends with the parent's value
\* unless the child's flag is explicitly false, and then with the child's value.
ClaimC1 ==
    (pc = "done" /\ parentConfiguration[FlagPath].t = "none") =>
        \A p \in Paths \ {FlagPath} :
            ( /\ IsScalar(child[p])
              /\ IsScalar(parentConfiguration[p])
              /\ child[p] # parentConfiguration[p] ) =>
                service[p] = IF ChildFlagFalse THEN child[p] ELSE parentConfiguration[p]

\* the parent document leaves custom and custom.parent absent or mappings
ParentKeepsParentReference ==
    /\ parentConfiguration[<<"custom">>].t \in {"none", "map"}
    /\ parentConfiguration[<<"custom", "parent">>].t \in {"none", "map"}

\* the statement of C1 for the parents that do not replace custom or custom.parent
\* by a scalar (which holds)
ScopedC1 ==
    (pc = "done" /\ parentConfiguration[FlagPath].t = "none"
                 /\ ParentKeepsParentReference) =>
        \A p \in Paths \ {FlagPath} :
            ( /\ IsScalar(child[p])
              /\ IsScalar(parentConfiguration[p])
              /\ child[p] # parentConfiguration[p] ) =>
                service[p] = IF ChildFlagFalse THEN child[p] ELSE parentConfiguration[p]

\* C2: the direction of the merge is the child's original flag (true when the
\* child does not set it), whatever the parent document holds under the flag.
ClaimC2 ==
    pc = "done" => (overwriteServiceConfig = ~ChildFlagFalse)

\* the side that wins a conflict, by the direction the merge used
Winner == IF overwriteServiceConfig THEN parentConfiguration ELSE child
Loser == IF overwriteServiceConfig THEN child ELSE parentConfiguration

BothSequences ==
    child[<<"plugins">>].t = "seq" /\ parentConfiguration[<<"plugins">>].t = "seq"

\* C3 as stated: under a key that holds a sequence on both sides the effective
\* value is exactly the winning side's sequence.
ClaimC3 ==
    (pc = "done" /\ BothSequences) =>
        service[<<"plugins">>] = Winner[<<"plugins">>]

\* C3 amended: under a key that holds a sequence of scalars on both sides the
\* effective value is as long as the longer of the two, and its element at an
\* index is the winning side's if the winning side has one there, else the losing
\* side's.
AmendedC3 ==
    (pc = "done" /\ BothSequences) =>
        LET w == Winner[<<"plugins">>].s
            l == Loser[<<"plugins">>].s
            r == service[<<"plugins">>]
        IN /\ r.t = "seq"
           /\ Len(r.s) = IF Len(w) > Len(l) THEN Len(w) ELSE Len(l)
           /\ \A i \in 1..Len(r.s) : r.s[i] = IF i <= Len(w) THEN w[i] ELSE l[i]

WitnessC3 ==
    /\ pc = "done"
    /\ BothSequences
    /\ Len(Loser[<<"plugins">>].s) > Len(Winner[<<"plugins">>].s)
    /\ Len(Winner[<<"plugins">>].s) > 0
    /\ ~overwriteServiceConfig

\* C4: below a key that holds a mapping on both sides, a nested key of one side
\* only is carried over with its value, and a nested key that both sides hold with
\* scalar values gets the value of the side that wins at the top level.
ClaimC4 ==
    pc = "done" =>
        \A p \in Paths :
            (Len(p) >= 2 /\ SharedMappingAbove(p)) =>
                /\ (child[p].t # "none" /\ parentConfiguration[p].t = "none") =>
                      \A q \in {p} \cup Below(p) : service[q] = child[q]
                /\ (child[p].t = "none" /\ parentConfiguration[p].t # "none") =>
                      \A q \in {p} \cup Below(p) : service[q] = parentConfiguration[q]
                /\ (IsScalar(child[p]) /\ IsScalar(parentConfiguration[p])) =>
                      service[p] = Winner[p]

WitnessC4 ==
    /\ pc = "done"
    /\ ~overwriteServiceConfig
    /\ child[<<"provider", "stage">>] = Str(<<"dev">>)
    /\ child[<<"provider", "region">>].t = "none"
    /\ parentConfiguration[<<"provider", "stage">>] = Str(<<"prod">>)
    /\ parentConfiguration[<<"provider", "region">>] = Str(<<"us">>)
    /\ service[<<"provider", "stage">>] = Str(<<"dev">>)
    /\ service[<<"provider", "region">>] = Str(<<"us">>)

\* C5: when the discovery or the loader fails, the service configuration is the
\* pristine child, no merge step has run and the variables are not repopulated.
ClaimC5 ==
    (pc = "failed" /\ error \in {DiscoveryError, "readFileSync"}) =>
        /\ service = child
        /\ ~populated

WitnessC5 ==
    /\ pc = "failed"
    /\ error = "readFileSync"
    /\ parentConfiguration[<<"service">>].t = "str"

\* a second state of C5: the discovery failed
WitnessC5Discovery == pc = "failed" /\ error = DiscoveryError

\* the configured maxLevels of the child, 3 when it is not set
ConfiguredLevels ==
    IF child[LevelsPath].t = "num" THEN child[LevelsPath].n ELSE DefaultMaxLevels

\* the child sets no path and maxLevels is a positive integer or not set
AutoDiscovery ==
    /\ child[PathPath].t = "none"
    /\ child[LevelsPath].t = "num" => child[LevelsPath].n > 0

\* C6: auto-discovery checks the 1st to at most the Nth ancestor directory, the
\* immediate parent directory at least, before it fails; with N = 1 that one only.
ClaimC6 ==
    AutoDiscovery =>
        /\ \A r \in probed : LevelOf(r) >= 1 /\ LevelOf(r) <= ConfiguredLevels
        /\ Cardinality({ DirOf(r) : r \in probed }) <= ConfiguredLevels
        /\ pc \in {"after", "load", "merge", "done", "failed"} => <<"..">> \in probed
        /\ (error = DiscoveryError /\ ConfiguredLevels = 1) => probed = {<<"..">>}

WitnessC6 ==
    /\ AutoDiscovery
    /\ error = DiscoveryError
    /\ child[LevelsPath].t = "num"
    /\ ConfiguredLevels > 1
    /\ Cardinality({ DirOf(r) : r \in probed }) = ConfiguredLevels

\* a directory of the path to the service directory is a strict ancestor of home
StrictAncestorOfHome(d) == IF home.onPath THEN d < home.depth ELSE d <= home.depth

\* C7: auto-discovery checks no directory that is a strict ancestor of the home
\* directory, wherever the service directory lies.
ClaimC7 ==
    \A r \in probed : ~StrictAncestorOfHome(DirOf(r))

\* the statement of C7 for the service directories strictly below home (which holds)
ScopedC7 ==
    (home.onPath /\ home.depth < depth) =>
        \A r \in probed : ~StrictAncestorOfHome(DirOf(r))

\* the child sets a path
PathSet == child[PathPath].t = "str" /\ child[PathPath].s # <<>>

\* C8: with custom.parent.path set the returned path comes from that value alone:
\* nothing is checked for existence or canonicalized, the loop is never entered
\* and the discovery error is never raised; a failure is the loader's.
ClaimC8 ==
    PathSet =>
        /\ probed = {} /\ resolved = {}
        /\ pc \notin {"while", "after"}
        /\ error # DiscoveryError
        /\ pc # "start" =>
              parentConfigurationFilename \in
                  {child[PathPath].s, PathJoin(child[PathPath].s, ServerlessYml)}
        /\ (pc = "failed" /\ service = child) => error = "readFileSync"

WitnessC8 ==
    /\ PathSet
    /\ fileAt = {}
    /\ pc = "failed"
    /\ error = "readFileSync"
    /\ parentConfigurationFilename = <<"..", "/", "shared", "/", "serverless", ".yml">>

\* the ceiling the comment of line 167 names
SafetyCeiling == 10

\* C9: whatever maxLevels is, no more than 10 ancestor directories are checked.
ClaimC9 ==
    Cardinality({ DirOf(r) : r \in probed }) <= SafetyCeiling

\* C10: an explicit path that ends with .yml is returned as it is, any other is
\* returned joined with serverless.yml.
ClaimC10 ==
    (PathSet /\ pc # "start") =>
        parentConfigurationFilename =
            IF EndsWithYml(child[PathPath].s) THEN child[PathPath].s
            ELSE PathJoin(child[PathPath].s, ServerlessYml)

====
